---- MODULE Spec2Model ----
(***************************************************************************)
(* Model of bloomit: a bit-packed Bloom filter (bloom-filter.ts), its      *)
(* index generation and bit helpers (utils.ts) and its binary codec        *)
(* (encoding.ts).                                                          *)
(*                                                                         *)
(* Representation of JavaScript numbers.  The filter's seed is             *)
(* 0x1234567890, which needs more than 32 bits, and the codec splits a     *)
(* number into two 32-bit halves.  A number that goes through the codec is *)
(* therefore kept as four 16-bit limbs, most significant first (a "Num");  *)
(* a 32-bit pattern (the result of JavaScript's ToInt32) is two limbs, and *)
(* a Uint8Array is a sequence of bytes.  Sequences are 1-based here and    *)
(* 0-based in the source: source index k is position k + 1.                *)
(*                                                                         *)
(* Hashing.  XXH.h32 is an external library; it is modelled as an          *)
(* arbitrary deterministic function of (value, seed).  An element is       *)
(* identified with its row of that function: a function from the seed's    *)
(* class (the seed modulo the row's period) to a hash value.               *)
(***************************************************************************)
EXTENDS Integers, Sequences, FiniteSets, TLC

VARIABLES filter, added, last, call

vars == <<filter, added, last, call>>

(***************************************************************************)
(* Bounds                                                                  *)
(***************************************************************************)
MaxSize == 9          \* the largest filter of the main specification, in bits
MaxHashes == 2        \* filters have 1..MaxHashes hash functions
MaxAdds == 2          \* add is called while the two logs hold fewer elements
MaxHash == 8          \* the larger of the two hash values of the main specification
SeedPeriod == 2       \* an element's hash depends on the seed modulo SeedPeriod
CtorRange == 17       \* the constructor is given sizes -CtorRange..CtorRange
IdxMaxSize == 7       \* getDistinctIndices is called with sizes 1..IdxMaxSize,
IdxMaxNumber == 8     \* 1..IdxMaxNumber indices (at most size + 1),
IdxMaxHash == 3       \* hash values 0..IdxMaxHash that depend on the seed
IdxSeedPeriod == 3    \* modulo IdxSeedPeriod,
IdxMaxCeiling == 3    \* and the ceilings 1..IdxMaxCeiling, 100 and size * 100
CodecMaxHigh == 31    \* the codec is given numbers below (CodecMaxHigh + 1) * 2^48
CodecSpread == 1      \* whose lower limbs are within CodecSpread of 0, 2^15, 2^16 - 1

\* maxIterations of the test 'should take a reasonable number of iterations
\* with pathological inputs'
TestMaxIterations == 100

\* seed of that test, and the default of getDistinctIndices
TestSeed == 0

Byte == 256            \* a Uint8Array cell holds 0..255
Limb == Byte * Byte

None == [none |-> TRUE]

\* this._seed = 0x1234567890, as a Num
DefaultSeed == <<0, 18, 13398, 30864>>

\* the elements, sizes and hash counts of the main specification
Elements == [0..(SeedPeriod - 1) -> {1, MaxHash}]

Sizes == {1, 2, MaxSize}

HashCounts == 1..MaxHashes

Min(a, b) == IF a < b THEN a ELSE b

RECURSIVE Pow2(_)
Pow2(n) == IF n = 0 THEN 1 ELSE 2 * Pow2(n - 1)

Range(s) == {s[k] : k \in 1..Len(s)}

(***************************************************************************)
(* JavaScript arithmetic                                                   *)
(***************************************************************************)
\* a % b of JavaScript: the remainder has the sign of the dividend
JsRem(a, b) == IF a >= 0 THEN a % b ELSE 0 - ((0 - a) % b)

\* bitwise OR and AND of two non-negative integers
RECURSIVE BitOr(_, _)
BitOr(a, b) ==
  IF a = 0 THEN b
  ELSE IF b = 0 THEN a
  ELSE 2 * BitOr(a \div 2, b \div 2) + (IF a % 2 = 1 \/ b % 2 = 1 THEN 1 ELSE 0)

RECURSIVE BitAnd(_, _)
BitAnd(a, b) ==
  IF a = 0 \/ b = 0 THEN 0
  ELSE 2 * BitAnd(a \div 2, b \div 2) + (IF a % 2 = 1 /\ b % 2 = 1 THEN 1 ELSE 0)

(***************************************************************************)
(* Nums: four 16-bit limbs, most significant first                         *)
(***************************************************************************)
NumOf(k) == <<0, 0, k \div Limb, k % Limb>>

IntOf(n) == n[3] * Limb + n[4]

NumAdd(n, k) ==
  LET s4 == n[4] + k
      s3 == n[3] + (s4 \div Limb)
      s2 == n[2] + (s3 \div Limb)
      s1 == n[1] + (s2 \div Limb)
  IN  <<s1 % Limb, s2 % Limb, s3 % Limb, s4 % Limb>>

NumMod(n, p) ==
  LET r == Limb % p
  IN  ((((((n[1] % p) * r + n[2]) % p) * r + n[3]) % p) * r + n[4]) % p

\* ToInt32(n): the low 32 bits, as a two-limb pattern
ToInt32(n) == <<n[3], n[4]>>

\* ToInt32(n / 2 ** 32): the high 32 bits (the fraction is truncated)
HighInt32(n) == <<n[1], n[2]>>

\* n >>= 8 on a 32-bit pattern: arithmetic shift, the sign bit is copied
Sar8(w) ==
  <<(w[1] \div Byte) + (IF w[1] >= 32768 THEN 65280 ELSE 0),
    (w[1] % Byte) * Byte + (w[2] \div Byte)>>

(***************************************************************************)
(* encoding.ts                                                             *)
(***************************************************************************)
RECURSIVE int32Loop(_, _, _)
int32Loop(index, w, bytes) ==
  IF index < 0 THEN bytes
  ELSE int32Loop(index - 1, Sar8(w), [bytes EXCEPT ![index + 1] = w[2] % Byte])

int32ToUint8Array(w) == int32Loop(3, w, <<0, 0, 0, 0>>)

\* as int64ToUint8Array, but the high half is taken with n >> 32, which
\* shifts by 32 mod 32 = 0 bits
int64ToUint8ArrayShift(n) ==
  LET part1 == int32ToUint8Array(ToInt32(n))
      part2 == int32ToUint8Array(ToInt32(n))
  IN  part1 \o part2

int64ToUint8Array(n) ==
  LET part1 == int32ToUint8Array(HighInt32(n))
      part2 == int32ToUint8Array(ToInt32(n))
  IN  part1 \o part2

\* as uint8ArrayToInt64, but weighting byte index by 2 ** (index * 8)
uint8ArrayToInt64LittleEndian(byteArray) ==
  LET B(k) == IF k <= Len(byteArray) THEN byteArray[k] ELSE 0
  IN  <<B(8) * Byte + B(7), B(6) * Byte + B(5),
        B(4) * Byte + B(3), B(2) * Byte + B(1)>>

\* int64 += byte * 2 ** (56 - index * 8) over the entries of byteArray
uint8ArrayToInt64(byteArray) ==
  LET B(k) == IF k <= Len(byteArray) THEN byteArray[k] ELSE 0
  IN  <<B(1) * Byte + B(2), B(3) * Byte + B(4),
        B(5) * Byte + B(6), B(7) * Byte + B(8)>>

(***************************************************************************)
(* utils.ts                                                                *)
(***************************************************************************)
\* value is the element's row of the hash function, which gives the hash for
\* each class of seeds; the two hashes use the seeds seed + 1 and seed + 2
hashTwice(value, seed) ==
  LET period == Cardinality(DOMAIN value)
  IN  [first  |-> value[NumMod(NumAdd(seed, 1), period)],
       second |-> value[NumMod(NumAdd(seed, 2), period)]]

Abs(x) == IF x < 0 THEN 0 - x ELSE x

\* as doubleHashing, without the cubic term (plain double hashing)
doubleHashingPlain(n, hashA, hashB, size) ==
  Abs(JsRem(hashA + n * hashB, size))

\* Math.abs((hashA + n * hashB + Math.floor((n ** 3 - n) / 6)) % size)
doubleHashing(n, hashA, hashB, size) ==
  Abs(JsRem(hashA + n * hashB + ((n * n * n - n) \div 6), size))

\* as gdiStep, but every candidate is pushed, whether or not indices includes it
gdiStepNoDedup(element, size, number, maxIterations, st) ==
  IF ~(Len(st.indices) < number)
  THEN [st EXCEPT !.status = "returned"]
  ELSE LET i1 == st.i + 1
           reseed == i1 > size
           seed1 == IF reseed THEN NumAdd(st.seed, 1) ELSE st.seed
           h == IF reseed THEN hashTwice(element, seed1)
                ELSE [first |-> (st.first + st.second) % size,
                      second |-> (st.second + st.i) % size]
       IN  [status  |-> IF maxIterations # 0 /\ i1 > maxIterations
                        THEN "threw" ELSE "run",
            first   |-> h.first,
            second  |-> h.second,
            i       |-> i1,
            seed    |-> seed1,
            indices |-> Append(st.indices, st.first % size)]

\* as gdiStep, but without the check of i against maxIterations
gdiStepNoCeiling(element, size, number, maxIterations, st) ==
  IF ~(Len(st.indices) < number)
  THEN [st EXCEPT !.status = "returned"]
  ELSE LET index == st.first % size
           i1 == st.i + 1
           reseed == i1 > size
           seed1 == IF reseed THEN NumAdd(st.seed, 1) ELSE st.seed
           h == IF reseed THEN hashTwice(element, seed1)
                ELSE [first |-> (st.first + st.second) % size,
                      second |-> (st.second + st.i) % size]
       IN  [status  |-> "run",
            first   |-> h.first,
            second  |-> h.second,
            i       |-> i1,
            seed    |-> seed1,
            indices |-> IF index \in Range(st.indices) THEN st.indices
                        ELSE Append(st.indices, index)]

\* as gdiStep, but i starts again at 1 when the hashes are recomputed
gdiStepRestart(element, size, number, maxIterations, st) ==
  IF ~(Len(st.indices) < number)
  THEN [st EXCEPT !.status = "returned"]
  ELSE LET index == st.first % size
           i1 == st.i + 1
           reseed == i1 > size
           seed1 == IF reseed THEN NumAdd(st.seed, 1) ELSE st.seed
           i2 == IF reseed THEN 1 ELSE i1
           h == IF reseed THEN hashTwice(element, seed1)
                ELSE [first |-> (st.first + st.second) % size,
                      second |-> (st.second + st.i) % size]
       IN  [status  |-> IF maxIterations # 0 /\ i2 > maxIterations
                        THEN "threw" ELSE "run",
            first   |-> h.first,
            second  |-> h.second,
            i       |-> i2,
            seed    |-> seed1,
            indices |-> IF index \in Range(st.indices) THEN st.indices
                        ELSE Append(st.indices, index)]

\* One turn of the while loop of getDistinctIndices on the loop's variables.
\* status is "run" while the loop runs, "returned" once the loop condition
\* failed (return indices) and "threw" once 'max iterations exceeded' was
\* thrown; i is one more than the number of candidates generated.
gdiStep(element, size, number, maxIterations, st) ==
  IF ~(Len(st.indices) < number)
  THEN [st EXCEPT !.status = "returned"]
  ELSE LET index == st.first % size
           pushed == IF index \in Range(st.indices) THEN st.indices
                     ELSE Append(st.indices, index)
           first1 == (st.first + st.second) % size
           second1 == (st.second + st.i) % size
           i1 == st.i + 1
           reseed == i1 > size
           seed1 == IF reseed THEN NumAdd(st.seed, 1) ELSE st.seed
           h == IF reseed THEN hashTwice(element, seed1)
                ELSE [first |-> first1, second |-> second1]
       IN  [status  |-> IF maxIterations # 0 /\ i1 > maxIterations
                        THEN "threw" ELSE "run",
            first   |-> h.first,
            second  |-> h.second,
            i       |-> i1,
            seed    |-> seed1,
            indices |-> pushed]

\* n turns of the loop, stopping at the first turn that returns or throws
\* (split in halves to keep the evaluation shallow)
RECURSIVE gdiRun(_, _, _, _, _, _)
gdiRun(element, size, number, maxIterations, st, n) ==
  IF st.status # "run" THEN st
  ELSE IF n <= 1 THEN gdiStep(element, size, number, maxIterations, st)
  ELSE gdiRun(element, size, number, maxIterations,
              gdiRun(element, size, number, maxIterations, st, n \div 2),
              n - (n \div 2))

\* The loop ends within maxIterations + 1 turns.  The result records whether
\* the call threw, the indices collected and the number of candidates
\* generated.
gdiCompute(element, size, number, seed, maxIterations) ==
  LET h == hashTwice(element, seed)
      st0 == [status |-> "run", first |-> h.first, second |-> h.second,
              i |-> 1, seed |-> seed, indices |-> <<>>]
      end == gdiRun(element, size, number, maxIterations, st0, maxIterations + 1)
  IN  [status |-> end.status, threw |-> end.status = "threw",
       indices |-> end.indices, candidates |-> end.i - 1]

\* The candidates (index = first % size) of the first n turns of the loop that
\* generate one, in order, from the loop state st on
RECURSIVE gdiTrace(_, _, _, _, _, _)
gdiTrace(element, size, number, maxIterations, st, n) ==
  IF n = 0 \/ st.status # "run" \/ ~(Len(st.indices) < number) THEN <<>>
  ELSE <<st.first % size>> \o
       gdiTrace(element, size, number, maxIterations,
                gdiStep(element, size, number, maxIterations, st), n - 1)

\* The candidates a call generates before it recomputes the hashes: those of
\* its first size turns
gdiCandidates(element, size, number, seed, maxIterations) ==
  LET h == hashTwice(element, seed)
      st0 == [status |-> "run", first |-> h.first, second |-> h.second,
              i |-> 1, seed |-> seed, indices |-> <<>>]
  IN  gdiTrace(element, size, number, maxIterations, st0, size)

\* getDistinctIndices is a pure function: its results for the calls add and
\* has make on the filters of the main specification are tabulated once
gdiTable ==
  {<<args, gdiCompute(args[1], args[2], args[3], DefaultSeed, args[2] * 100)>> :
     args \in Elements \X Sizes \X HashCounts}

getDistinctIndices(element, size, number, seed, maxIterations) ==
  IF /\ seed = DefaultSeed
     /\ maxIterations = size * 100
     /\ \E entry \in gdiTable : entry[1] = <<element, size, number>>
  THEN (CHOOSE entry \in gdiTable : entry[1] = <<element, size, number>>)[2]
  ELSE gdiCompute(element, size, number, seed, maxIterations)

getUint8ArrayLength(bitCount) ==
  LET remainder == JsRem(bitCount, 8)
      bitFill == 8 - remainder
  IN  (bitCount + bitFill) \div 8

getByteIndexInArray(bitIndex) == bitIndex \div 8

getBitIndex(bitIndex) == bitIndex % 8

\* as setBitInByte, but the byte is replaced by the mask
setBitInByteAssign(indexInByte, byte) == Pow2(indexInByte)

setBitInByte(indexInByte, byte) ==
  LET byteOR == Pow2(indexInByte)
  IN  BitOr(byte, byteOR)

\* array[k] read as an operand of a bitwise operator: undefined counts as 0
ByteAt(array, k) == IF k + 1 \in 1..Len(array) THEN array[k + 1] ELSE 0

\* array[k] = v on a Uint8Array: a write outside the array is ignored
ByteSet(array, k, v) ==
  IF k + 1 \in 1..Len(array) THEN [array EXCEPT ![k + 1] = v % Byte] ELSE array

getBitAtIndex(array, bitIndex) ==
  LET byte == ByteAt(array, getByteIndexInArray(bitIndex))
      indexInByte == getBitIndex(bitIndex)
      byteAND == setBitInByte(indexInByte, 0)
  IN  BitAnd(byte, byteAND) \div Pow2(indexInByte)

(***************************************************************************)
(* bloom-filter.ts                                                         *)
(***************************************************************************)
\* new Uint8Array(n): n zero bytes; a negative n throws a RangeError
Uint8ArrayThrows(n) == n < 0

Zeroes(n) == [k \in 1..n |-> 0]

\* array.set(source, offset), for a source that fits into the array
TypedArraySet(array, source, offset) ==
  SubSeq(array, 1, offset) \o source
    \o SubSeq(array, offset + Len(source) + 1, Len(array))

\* array.slice(from, to)
Slice(array, from, to) == SubSeq(array, from + 1, Min(to, Len(array)))

\* the constructor; the fields are those of the class
BloomFilter(size, nbHashes) ==
  [_seed     |-> DefaultSeed,
   _size     |-> size,
   _nbHashes |-> nbHashes,
   _filter   |-> Zeroes(getUint8ArrayLength(size)),
   _length   |-> 0]

\* as addLoop, but the loop stops one index early
RECURSIVE addLoopShort(_, _, _)
addLoopShort(bytes, indexes, i) ==
  IF ~(i < Len(indexes) - 1) THEN bytes
  ELSE LET indexToEdit == getByteIndexInArray(indexes[i + 1])
           byteToEdit == ByteAt(bytes, indexToEdit)
           editedByte == setBitInByte(getBitIndex(indexes[i + 1]), byteToEdit)
       IN  addLoopShort(ByteSet(bytes, indexToEdit, editedByte), indexes, i + 1)

\* the bit-setting loop of add
RECURSIVE addLoop(_, _, _)
addLoop(bytes, indexes, i) ==
  IF ~(i < Len(indexes)) THEN bytes
  ELSE LET indexToEdit == getByteIndexInArray(indexes[i + 1])
           byteToEdit == ByteAt(bytes, indexToEdit)
           editedByte == setBitInByte(getBitIndex(indexes[i + 1]), byteToEdit)
       IN  addLoop(ByteSet(bytes, indexToEdit, editedByte), indexes, i + 1)

\* as add, but the bits are set as the indices are generated, so that a call
\* that throws has already set the bits of the indices found so far
addEager(this, element) ==
  LET r == getDistinctIndices(element, this._size, this._nbHashes, this._seed,
                              this._size * 100)
  IN  IF r.threw
      THEN [threw |-> TRUE,
            filter |-> [this EXCEPT !._filter = addLoop(this._filter, r.indices, 0)]]
      ELSE [threw |-> FALSE,
            filter |-> [this EXCEPT !._filter = addLoop(this._filter, r.indices, 0),
                                    !._length = this._length + 1]]

\* as add, but _length is incremented only when the call changed the buffer
addCountChanges(this, element) ==
  LET r == getDistinctIndices(element, this._size, this._nbHashes, this._seed,
                              this._size * 100)
      bytes == addLoop(this._filter, r.indices, 0)
  IN  IF r.threw THEN [threw |-> TRUE, filter |-> this]
      ELSE [threw |-> FALSE,
            filter |-> [this EXCEPT !._filter = bytes,
                                    !._length = IF bytes = this._filter
                                                THEN this._length
                                                ELSE this._length + 1]]

\* add(element): the filter after the call and whether the call threw
add(this, element) ==
  LET r == getDistinctIndices(element, this._size, this._nbHashes, this._seed,
                              this._size * 100)
  IN  IF r.threw THEN [threw |-> TRUE, filter |-> this]
      ELSE [threw |-> FALSE,
            filter |-> [this EXCEPT !._filter = addLoop(this._filter, r.indices, 0),
                                    !._length = this._length + 1]]

RECURSIVE hasLoop(_, _, _)
hasLoop(bytes, indexes, i) ==
  IF ~(i < Len(indexes)) THEN TRUE
  ELSE IF getBitAtIndex(bytes, indexes[i + 1]) = 0 THEN FALSE
  ELSE hasLoop(bytes, indexes, i + 1)

\* has(element): the value returned and whether the call threw
has(this, element) ==
  LET r == getDistinctIndices(element, this._size, this._nbHashes, this._seed,
                              this._size * 100)
  IN  IF r.threw THEN [threw |-> TRUE, value |-> FALSE]
      ELSE [threw |-> FALSE, value |-> hasLoop(this._filter, r.indices, 0)]

\* as equals, but only the three counters are compared
equalsHeader(this, other) ==
  ~(\/ this._size # other._size
    \/ this._nbHashes # other._nbHashes
    \/ this._length # other._length)

equals(this, other) ==
  IF \/ this._size # other._size
     \/ this._nbHashes # other._nbHashes
     \/ this._length # other._length
  THEN FALSE
  ELSE \A index \in 0..(Len(this._filter) - 1) :
         /\ index + 1 \in 1..Len(other._filter)
         /\ other._filter[index + 1] = this._filter[index + 1]

\* as export, but _length is written before _nbHashes
exportSwapped(this) ==
  LET header == int64ToUint8Array(this._seed) \o int64ToUint8Array(NumOf(this._length))
                \o int64ToUint8Array(NumOf(this._nbHashes))
                \o int64ToUint8Array(NumOf(this._size))
  IN  header \o this._filter

\* the copy loop of export
RECURSIVE exportLoop(_, _, _)
exportLoop(exportArray, bytes, index) ==
  IF ~(index < Len(bytes)) THEN exportArray
  ELSE exportLoop(ByteSet(exportArray, 32 + index, bytes[index + 1]), bytes, index + 1)

\* export(): 32 header bytes, then the bytes of the filter
export(this) ==
  LET exportArray == Zeroes(Len(this._filter) + 4 * 8)
      withSeed == TypedArraySet(exportArray, int64ToUint8Array(this._seed), 0)
      withNbHashes == TypedArraySet(withSeed, int64ToUint8Array(NumOf(this._nbHashes)), 8)
      withLength == TypedArraySet(withNbHashes, int64ToUint8Array(NumOf(this._length)), 16)
      withSize == TypedArraySet(withLength, int64ToUint8Array(NumOf(this._size)), 24)
  IN  exportLoop(withSize, this._filter, 0)

\* BloomFilter.import(binaryBloomFilter)
import(binaryBloomFilter) ==
  LET seedArray == Slice(binaryBloomFilter, 0, 8)
      nbHashesArray == Slice(binaryBloomFilter, 8, 16)
      lengthArray == Slice(binaryBloomFilter, 16, 24)
      sizeArray == Slice(binaryBloomFilter, 24, 32)
      filterArray == Slice(binaryBloomFilter, 32, Len(binaryBloomFilter))
      bloomFilter == BloomFilter(IntOf(uint8ArrayToInt64(sizeArray)),
                                 IntOf(uint8ArrayToInt64(nbHashesArray)))
  IN  [bloomFilter EXCEPT !._seed = uint8ArrayToInt64(seedArray),
                          !._length = IntOf(uint8ArrayToInt64(lengthArray)),
                          !._filter = filterArray]

(***************************************************************************)
(* The program: two filter objects a and b.  A filter is created by the    *)
(* constructor or by import of an exported buffer, and then only add       *)
(* changes it.  added[s] is the log of the elements add accepted for the   *)
(* filter s (import copies the log of the exported filter); last is the    *)
(* last call and what it returned.                                         *)
(***************************************************************************)
Slots == {"a", "b"}

Init ==
  /\ filter = [s \in Slots |-> None]
  /\ added = [s \in Slots |-> <<>>]
  /\ last = [op |-> "init"]
  /\ call = None

New(s, size, nbHashes) ==
  /\ filter[s] = None
  /\ filter' = [filter EXCEPT ![s] = BloomFilter(size, nbHashes)]
  /\ last' = [op |-> "new"]
  /\ UNCHANGED <<added, call>>

AddCall(s, element) ==
  /\ filter[s] # None
  /\ Len(added["a"]) + Len(added["b"]) < MaxAdds
  /\ LET r == add(filter[s], element)
     IN  /\ filter' = [filter EXCEPT ![s] = r.filter]
         /\ added' = IF r.threw THEN added
                     ELSE [added EXCEPT ![s] = Append(@, element)]
         /\ last' = [op |-> "add", of |-> s, threw |-> r.threw]
  /\ UNCHANGED call

HasCall(s, element) ==
  /\ filter[s] # None
  /\ last' = [op |-> "has", res |-> has(filter[s], element).value]
  /\ UNCHANGED <<filter, added, call>>

\* rate() returns a floating-point number computed from _nbHashes, _length
\* and _size; only its effect on the filter (none) is modelled
RateCall(s) ==
  /\ filter[s] # None
  /\ last' = [op |-> "rate"]
  /\ UNCHANGED <<filter, added, call>>

EqualsCall(s, t) ==
  /\ filter[s] # None
  /\ filter[t] # None
  /\ last' = [op |-> "equals", res |-> equals(filter[s], filter[t])]
  /\ UNCHANGED <<filter, added, call>>

ExportCall(s) ==
  /\ filter[s] # None
  /\ last' = [op |-> "export", of |-> s, res |-> export(filter[s])]
  /\ UNCHANGED <<filter, added, call>>

\* BloomFilter.import applied to the buffer the last export call returned
ImportCall(s) ==
  /\ filter[s] = None
  /\ last.op = "export"
  /\ filter' = [filter EXCEPT ![s] = import(last.res)]
  /\ added' = [added EXCEPT ![s] = added[last.of]]
  /\ last' = [op |-> "import"]
  /\ UNCHANGED call

Next ==
  \/ \E s \in Slots, size \in Sizes, nbHashes \in HashCounts :
       New(s, size, nbHashes)
  \/ \E s \in Slots, element \in Elements : AddCall(s, element)
  \/ \E s \in Slots, element \in Elements : HasCall(s, element)
  \/ \E s \in Slots : RateCall(s)
  \/ \E s \in Slots, t \in Slots : EqualsCall(s, t)
  \/ \E s \in Slots : ExportCall(s)
  \/ \E s \in Slots : ImportCall(s)

Spec == Init /\ [][Next]_vars

(***************************************************************************)
(* The constructor on any arguments: new BloomFilter(size, nbHashes) with  *)
(* sizes and hash counts that may be zero or negative.                     *)
(***************************************************************************)
NewAny(size, nbHashes) ==
  /\ IF Uint8ArrayThrows(getUint8ArrayLength(size))
     THEN /\ last' = [op |-> "new", threw |-> TRUE]
          /\ UNCHANGED filter
     ELSE /\ last' = [op |-> "new", threw |-> FALSE]
          /\ filter' = [filter EXCEPT !["a"] = BloomFilter(size, nbHashes)]
  /\ UNCHANGED <<added, call>>

NextCtor ==
  \E size \in (0 - CtorRange)..CtorRange, nbHashes \in (0 - MaxHashes)..MaxHashes :
    NewAny(size, nbHashes)

SpecCtor == Init /\ [][NextCtor]_vars

(***************************************************************************)
(* getDistinctIndices as a pure function: the arguments of one call are    *)
(* drawn from bounded sets, and the call is made on them; call holds the   *)
(* arguments and, once the call is done, its result and the candidates it  *)
(* generated before it recomputed the hashes.                              *)
(***************************************************************************)
IdxElements == [0..(IdxSeedPeriod - 1) -> 0..IdxMaxHash]

Ceilings(size) == (1..IdxMaxCeiling) \cup {TestMaxIterations, size * 100}

InitIdx ==
  /\ filter = [s \in Slots |-> None]
  /\ added = [s \in Slots |-> <<>>]
  /\ last = [op |-> "init"]
  /\ \E element \in IdxElements, size \in 1..IdxMaxSize :
       \E number \in 1..Min(size + 1, IdxMaxNumber), maxIterations \in Ceilings(size) :
         call = [element |-> element, size |-> size, number |-> number,
                 seed |-> TestSeed, maxIterations |-> maxIterations,
                 done |-> FALSE, result |-> None, trace |-> <<>>]

Call ==
  /\ ~call.done
  /\ call' = [call EXCEPT
                !.done = TRUE,
                !.result = gdiCompute(call.element, call.size, call.number,
                                      NumOf(call.seed), call.maxIterations),
                !.trace = gdiCandidates(call.element, call.size, call.number,
                                        NumOf(call.seed), call.maxIterations)]
  /\ UNCHANGED <<filter, added, last>>

NextIdx == Call

SpecIdx == InitIdx /\ [][NextIdx]_vars

(***************************************************************************)
(* The codec as pure functions: a number n is drawn from the non-negative  *)
(* integers below (CodecMaxHigh + 1) * 2^48 (the safe integers end at      *)
(* 2^53 - 1), with limbs at the ends and in the middle of the 16-bit range *)
(* so that bit 31 and the bits from 32 up are exercised; it is encoded by  *)
(* int64ToUint8Array and the bytes are decoded by uint8ArrayToInt64.       *)
(***************************************************************************)
CodecLimbs ==
  (0..CodecSpread)
    \cup (((Limb \div 2) - CodecSpread)..((Limb \div 2) + CodecSpread))
    \cup ((Limb - 1 - CodecSpread)..(Limb - 1))

CodecNums == (0..CodecMaxHigh) \X CodecLimbs \X CodecLimbs \X CodecLimbs

InitCodec ==
  /\ filter = [s \in Slots |-> None]
  /\ added = [s \in Slots |-> <<>>]
  /\ last = [op |-> "init"]
  /\ \E n \in CodecNums :
       call = [n |-> n, stage |-> "new", bytes |-> <<>>, back |-> <<>>]

Encode ==
  /\ call.stage = "new"
  /\ call' = [call EXCEPT !.stage = "encoded",
                          !.bytes = int64ToUint8Array(call.n)]
  /\ UNCHANGED <<filter, added, last>>

Decode ==
  /\ call.stage = "encoded"
  /\ call' = [call EXCEPT !.stage = "decoded",
                          !.back = uint8ArrayToInt64(call.bytes)]
  /\ UNCHANGED <<filter, added, last>>

NextCodec == Encode \/ Decode

SpecCodec == InitCodec /\ [][NextCodec]_vars

(***************************************************************************)
(* Properties of the main specification                                    *)
(***************************************************************************)
Built == {s \in Slots : filter[s] # None}

\* the bit at bitIndex of a filter's buffer is set
BitSet(f, bitIndex) == getBitAtIndex(f._filter, bitIndex) = 1

\* the 8 bytes of a Num, most significant first
BigEndian8(n) ==
  [k \in 1..8 |-> IF k % 2 = 1 THEN n[(k + 1) \div 2] \div Byte
                  ELSE n[k \div 2] % Byte]

\* C1: no false negatives: has returns true (and does not throw) for every
\* element that add accepted for the filter, whatever was added before or
\* after it.
C1_NoFalseNegatives ==
  \A s \in Built : \A k \in 1..Len(added[s]) :
    has(filter[s], added[s][k]) = [threw |-> FALSE, value |-> TRUE]

\* a filter that accepted two different elements, queried with has
C1_Witness ==
  /\ last.op = "has"
  /\ last.res
  /\ \E s \in Built :
       /\ Len(added[s]) = 2
       /\ added[s][1] # added[s][2]
       /\ filter[s]._size = MaxSize

\* C2: round trip: import(export(f)) equals f, and has the same seed, size,
\* hashCount, elementCount and bit buffer as f.
C2_RoundTrip ==
  \A s \in Built :
    LET g == import(export(filter[s]))
    IN  /\ equals(g, filter[s])
        /\ g._seed = filter[s]._seed
        /\ g._size = filter[s]._size
        /\ g._nbHashes = filter[s]._nbHashes
        /\ g._length = filter[s]._length
        /\ g._filter = filter[s]._filter

\* b was imported from the export of a, which holds elements
C2_Witness ==
  /\ last.op = "import"
  /\ Built = Slots
  /\ filter["a"]._length >= 1
  /\ \E k \in 1..Len(filter["a"]._filter) : filter["a"]._filter[k] # 0
  /\ filter["b"] = filter["a"]
  /\ equals(filter["b"], filter["a"])

\* C3: export layout: bytes 0-7 are the seed, 8-15 the hashCount, 16-23 the
\* elementCount, 24-31 the size, each big-endian, and the bytes from offset
\* 32 on are the bit buffer.
C3_ExportLayout ==
  \A s \in Built :
    LET f == filter[s]
        x == export(f)
    IN  /\ Len(x) = 32 + Len(f._filter)
        /\ SubSeq(x, 1, 8) = BigEndian8(f._seed)
        /\ SubSeq(x, 9, 16) = BigEndian8(NumOf(f._nbHashes))
        /\ SubSeq(x, 17, 24) = BigEndian8(NumOf(f._length))
        /\ SubSeq(x, 25, 32) = BigEndian8(NumOf(f._size))
        /\ SubSeq(x, 33, Len(x)) = f._filter

\* export has returned the buffer of a two-byte filter that holds an element
C3_Witness ==
  /\ last.op = "export"
  /\ Len(last.res) = 34
  /\ last.res[34] # 0
  /\ last.res[24] = 1
  /\ last.res = export(filter[last.of])

\* C7: add is atomic with respect to failure: a call of add either sets all
\* the bits of the element's index set and increments elementCount by one,
\* or throws and leaves the filter (bit buffer, elementCount, seed, size,
\* hashCount) as it was.
C7_AddAtomic ==
  [][last'.op = "add" =>
       IF last'.threw
       THEN filter' = filter /\ added' = added
       ELSE LET s == last'.of
                e == added'[s][Len(added'[s])]
                r == gdiCompute(e, filter[s]._size, filter[s]._nbHashes,
                                filter[s]._seed, filter[s]._size * 100)
            IN  /\ added'[s] = Append(added[s], e)
                /\ \A t \in Slots \ {s} : filter'[t] = filter[t]
                /\ r.status = "returned"
                /\ Len(r.indices) = filter[s]._nbHashes
                /\ \A bitIndex \in Range(r.indices) : BitSet(filter'[s], bitIndex)
                /\ filter'[s]._length = filter[s]._length + 1
                /\ filter'[s]._seed = filter[s]._seed
                /\ filter'[s]._size = filter[s]._size
                /\ filter'[s]._nbHashes = filter[s]._nbHashes]_vars

\* add has thrown on a filter that already holds an element
C7_Witness ==
  /\ last.op = "add"
  /\ last.threw
  /\ filter[last.of]._length >= 1
  /\ \E k \in 1..Len(filter[last.of]._filter) : filter[last.of]._filter[k] # 0

C10_MonotonicBits ==
  [][\A s \in Slots :
       filter[s] # None =>
         /\ filter'[s] # None
         /\ \A bitIndex \in 0..(8 * Len(filter[s]._filter) - 1) :
              BitSet(filter[s], bitIndex) => BitSet(filter'[s], bitIndex)]_vars

\* a second add has set bits in a buffer that already had bits set
C10_Witness ==
  /\ last.op = "add"
  /\ ~last.threw
  /\ Len(added[last.of]) = 2
  /\ added[last.of][1] # added[last.of][2]
  /\ \E b1 \in 0..7, b2 \in 0..7 :
       /\ b1 # b2
       /\ BitSet(filter[last.of], b1)
       /\ BitSet(filter[last.of], b2)

\* C11: _length (elementCount) counts insertions: it is 0 after construction,
\* every add that returns increases it by exactly 1, also when the element was
\* added before (the buffer is then unchanged), no step decreases it, and
\* has, rate, equals and export leave it unchanged; so in every state it is
\* the number of add calls that returned, those recorded in an imported
\* buffer included.
C11_ElementCount ==
  [][/\ \A s \in Slots :
          /\ (filter[s] = None /\ filter'[s] # None /\ last'.op = "new") =>
                filter'[s]._length = 0
          /\ filter[s] # None =>
                /\ filter'[s] # None
                /\ filter'[s]._length >= filter[s]._length
          /\ (filter[s] # None /\ last'.op \in {"has", "rate", "equals", "export"}) =>
                filter'[s]._length = filter[s]._length
          /\ filter'[s] # None => filter'[s]._length = Len(added'[s])
     /\ (last'.op = "add" /\ ~last'.threw) =>
          LET s == last'.of
              e == added'[s][Len(added'[s])]
          IN  /\ filter'[s]._length = filter[s]._length + 1
              /\ \A t \in Slots \ {s} : filter'[t] = filter[t]
              /\ e \in Range(added[s]) => filter'[s]._filter = filter[s]._filter
     /\ (last'.op = "add" /\ last'.threw) => filter' = filter]_vars

\* the same element was added twice to a filter made by the constructor:
\* the count is 2 and the buffer holds the bits of one element
C11_Witness ==
  /\ last.op = "add"
  /\ ~last.threw
  /\ Len(added[last.of]) = 2
  /\ added[last.of][1] = added[last.of][2]
  /\ filter[last.of]._length = 2
  /\ filter[last.of]._filter =
       add(BloomFilter(filter[last.of]._size, filter[last.of]._nbHashes),
           added[last.of][1]).filter._filter

(***************************************************************************)
(* Properties of the constructor                                           *)
(***************************************************************************)
\* C4: the byte length of the bit buffer is ceil(size / 8) for every filter
\* of size >= 1, multiples of 8 included.
C4_BufferLength ==
  \A s \in Built :
    filter[s]._size >= 1 => Len(filter[s]._filter) = (filter[s]._size + 7) \div 8

\* C8: no filter with size <= 0 or hashCount <= 0 is ever constructed.
C8_NoInvalidFilter ==
  \A s \in Built : filter[s]._size > 0 /\ filter[s]._nbHashes > 0

(***************************************************************************)
(* Properties of getDistinctIndices                                        *)
(***************************************************************************)
Returned == call.done /\ call.result.status = "returned"

\* C5: whenever getDistinctIndices returns, the list holds exactly hashCount
\* values, pairwise distinct, each an integer in [0, size).
C5_DistinctIndices ==
  Returned =>
    /\ Len(call.result.indices) = call.number
    /\ Cardinality(Range(call.result.indices)) = call.number
    /\ \A k \in 1..Len(call.result.indices) :
         call.result.indices[k] \in 0..(call.size - 1)

\* a call that returned three indices after skipping a repeated candidate
C5_Witness ==
  /\ Returned
  /\ call.number = 3
  /\ call.size = 5
  /\ call.result.candidates > 3

\* C6, as stated: with size = hashCount and the ceiling of the test (100),
\* getDistinctIndices returns the full set of indices for every element,
\* without raising the exhaustion error.
C6_PathologicalReturns ==
  (call.done /\ call.size = call.number /\ call.maxIterations = TestMaxIterations) =>
    /\ call.result.status = "returned"
    /\ Len(call.result.indices) = call.number

\* C6, amended: with size = hashCount and the ceiling of the test, the call
\* ends within the ceiling: it returns the full set of distinct indices, or
\* it raises the exhaustion error once maxIterations candidates were
\* generated.
C6_PathologicalTerminates ==
  (call.done /\ call.size = call.number /\ call.maxIterations = TestMaxIterations) =>
    /\ call.result.status \in {"returned", "threw"}
    /\ call.result.candidates <= call.maxIterations
    /\ call.result.status = "returned" =>
         /\ Len(call.result.indices) = call.number
         /\ Cardinality(Range(call.result.indices)) = call.number
    /\ call.result.status = "threw" => call.result.candidates = call.maxIterations

\* the configuration of the test: 7 indices out of 7, found after a reseed
C6_Witness ==
  /\ Returned
  /\ call.size = 7
  /\ call.number = 7
  /\ call.maxIterations = TestMaxIterations
  /\ call.result.candidates > 7

\* C12: bounded work: with the default ceiling (size * 100, size >= 1) every
\* call of getDistinctIndices ends, by returning or by throwing 'max
\* iterations exceeded', after at most size * 100 candidates, whatever the
\* hash values are; a call that asks for more than size indices throws.
C12_BoundedWork ==
  (call.done /\ call.size >= 1 /\ call.maxIterations = call.size * 100) =>
    /\ call.result.status \in {"returned", "threw"}
    /\ call.result.candidates <= call.size * 100
    /\ call.number > call.size => call.result.status = "threw"

\* a call for size + 1 indices under the default ceiling has thrown after
\* size * 100 candidates, with all the size indices collected
C12_Witness ==
  /\ call.done
  /\ call.maxIterations = call.size * 100
  /\ call.number = call.size + 1
  /\ call.size > 1
  /\ call.result.status = "threw"
  /\ call.result.candidates = call.size * 100
  /\ Len(call.result.indices) = call.size

\* C13: 'max iterations exceeded' is thrown only when the ceiling is exceeded:
\* a call that has collected the requested number of distinct indices after
\* at most maxIterations candidates (exactly maxIterations included) returns
\* them; a call throws only after more than maxIterations candidates, with
\* the set incomplete.
C13_ThrowsOnlyBeyondCeiling ==
  call.done =>
    /\ (/\ Len(call.result.indices) = call.number
        /\ call.result.candidates <= call.maxIterations) =>
          call.result.status = "returned"
    /\ call.result.status = "threw" =>
          /\ call.result.candidates > call.maxIterations
          /\ Len(call.result.indices) < call.number

\* C14: enhanced double hashing: until the hashes are recomputed (that is, for
\* the first size candidates), the n-th candidate of the loop of
\* getDistinctIndices, counting n from 0, is (h1 + n * h2 + (n^3 - n) / 6)
\* mod size, where h1 and h2 are the two hashes of hashTwice: the loop
\* generates the sequence of doubleHashing(n, h1, h2, size).
C14_EnhancedDoubleHashing ==
  call.done =>
    LET h == hashTwice(call.element, NumOf(call.seed))
    IN  \A n \in 0..(Len(call.trace) - 1) :
          /\ call.trace[n + 1] =
               doubleHashing(n, h.first, h.second, call.size)
          /\ call.trace[n + 1] =
               (h.first + n * h.second + ((n * n * n - n) \div 6)) % call.size

\* a call on size 7 has generated its first 7 candidates, one of them a
\* repeat, and gone on with recomputed hashes
C14_Witness ==
  /\ call.done
  /\ call.size = 7
  /\ Len(call.trace) = 7
  /\ Cardinality(Range(call.trace)) \in 2..6
  /\ hashTwice(call.element, NumOf(call.seed)).second # 0
  /\ call.result.candidates > 7

(***************************************************************************)
(* Properties of the codec                                                 *)
(***************************************************************************)
\* C15: codec round trip: for every non-negative safe integer n (values at
\* and above 2^31 and 2^32 included), int64ToUint8Array(n) is exactly 8 bytes,
\* the big-endian representation of n (byte k holds floor(n / 256^(8-k)) mod
\* 256, the high 32-bit half first), and uint8ArrayToInt64 of these bytes
\* is n.
C15_CodecRoundTrip ==
  /\ call.stage \in {"encoded", "decoded"} =>
       /\ Len(call.bytes) = 8
       /\ \A k \in 1..8 : call.bytes[k] \in 0..(Byte - 1)
       /\ call.bytes = BigEndian8(call.n)
  /\ call.stage = "decoded" => call.back = call.n

\* a number above 2^52 whose low half has bit 31 set went through the codec
C15_Witness ==
  /\ call.stage = "decoded"
  /\ call.n[1] = CodecMaxHigh
  /\ call.n[2] >= 1
  /\ call.n[3] >= Limb \div 2
  /\ call.bytes[2] = CodecMaxHigh
  /\ call.bytes[5] >= Byte \div 2
  /\ call.back = call.n

====
